---- MODULE Spec2Model ----
(***************************************************************************)
(* Model of the Prompt Generator backend (src/backend/main.py): the        *)
(* template catalog, PromptGeneratorEngine.generate with its random        *)
(* draws, PromptGeneratorEngine.optimize with its keyword heuristics, and  *)
(* the /generate and /optimize endpoints that wrap them.                   *)
(*                                                                         *)
(* Python strings are TLA+ strings; Len, \o, SubSeq, Head and Tail act on  *)
(* them character by character.                                            *)
(***************************************************************************)
EXTENDS Integers, Sequences, FiniteSets, TLC

VARIABLES templates, pc, request, iter, prompts, sel, response

vars == <<templates, pc, request, iter, prompts, sel, response>>

(***************************************************************************)
(* Bounds of the model.                                                    *)
(***************************************************************************)
\* largest count a /generate request of the model asks for
MaxCount == 2
\* resolution of the random source: a draw is one of Grid equidistant points
Grid == 3
\* largest number of vocabulary words in a text sent to /optimize
MaxWords == 2

(***************************************************************************)
(* Program constants.                                                      *)
(***************************************************************************)
MaxPromptCount == 1000
MaxTextLen == 500

(***************************************************************************)
(* String helpers: str.lower, str.capitalize, str.strip, str.join, `in`.   *)
(***************************************************************************)
UpperAlpha == "ABCDEFGHIJKLMNOPQRSTUVWXYZ"
LowerAlpha == "abcdefghijklmnopqrstuvwxyz"

Max(a, b) == IF a >= b THEN a ELSE b
Min(a, b) == IF a <= b THEN a ELSE b

CharAt(s, i) == SubSeq(s, i, i)

\* the lower-case letter of each capital, and the capital of each letter
ToLower == [c \in {CharAt(UpperAlpha, i) : i \in 1..26} |->
               CharAt(LowerAlpha, CHOOSE i \in 1..26 : CharAt(UpperAlpha, i) = c)]
ToUpper == [c \in {CharAt(LowerAlpha, i) : i \in 1..26} |->
               CharAt(UpperAlpha, CHOOSE i \in 1..26 : CharAt(LowerAlpha, i) = c)]

LowerChar(c) == IF c \in DOMAIN ToLower THEN ToLower[c] ELSE c

UpperChar(c) == IF c \in DOMAIN ToUpper THEN ToUpper[c] ELSE c

RECURSIVE Lower(_)
Lower(s) == IF s = "" THEN "" ELSE LowerChar(Head(s)) \o Lower(Tail(s))

RECURSIVE Upper(_)
Upper(s) == IF s = "" THEN "" ELSE UpperChar(Head(s)) \o Upper(Tail(s))

\* str.capitalize(): first character upper-cased, the rest lower-cased
Capitalize(s) == IF s = "" THEN "" ELSE UpperChar(Head(s)) \o Lower(Tail(s))

\* sub in s
Contains(s, sub) ==
    \E i \in 0..(Len(s) - Len(sub)) : SubSeq(s, i + 1, i + Len(sub)) = sub

StartsWith(s, pre) == Len(pre) <= Len(s) /\ SubSeq(s, 1, Len(pre)) = pre

IsSpace(c) == c \in {" ", "\t", "\n", "\r"}

RECURSIVE LStrip(_)
LStrip(s) == IF s /= "" /\ IsSpace(Head(s)) THEN LStrip(Tail(s)) ELSE s

RECURSIVE RStrip(_)
RStrip(s) ==
    IF s /= "" /\ IsSpace(CharAt(s, Len(s)))
    THEN RStrip(SubSeq(s, 1, Len(s) - 1))
    ELSE s

\* str.strip()
Strip(s) == RStrip(LStrip(s))

\* sep.join(parts)
RECURSIVE Join(_, _)
Join(parts, sep) ==
    IF parts = <<>> THEN ""
    ELSE IF Len(parts) = 1 THEN parts[1]
    ELSE parts[1] \o sep \o Join(Tail(parts), sep)

\* seq[:n]
Take(seq, n) == SubSeq(seq, 1, Min(n, Len(seq)))

(***************************************************************************)
(* Enumerations and the template catalog.                                  *)
(***************************************************************************)
PromptTypeEnum == {"image", "workflow", "automation", "code", "analysis"}

SpecificityLevel == {"low", "medium", "high", "extreme"}

\* the ratios of generate's specificity_levels table, in tenths
specificity_levels == [low |-> 2, medium |-> 5, high |-> 8, extreme |-> 10]

InitTemplates ==
    [image |-> <<
        [type |-> "image",
         base_structure |-> "{subject} {action} {style} {technical}",
         modifiers |-> <<
            "photorealistic", "artistic", "abstract", "hyper-detailed",
            "minimalist", "dramatic", "cinematic", "editorial",
            "vibrant", "muted tones", "high contrast", "soft lighting">>,
         constraints |-> <<
            "maintain exact facial features and proportions",
            "preserve original identity and likeness",
            "keep consistent lighting and shadows",
            "match existing color palette and temperature",
            "ensure natural blending and transitions",
            "avoid distortion or warping",
            "maintain background integrity",
            "preserve skin texture and tone">>,
         quality_tokens |-> <<
            "8k resolution", "professional photography", "studio lighting",
            "bokeh", "shallow depth of field", "golden hour",
            "sharp focus", "HDR", "award-winning", "magazine quality">>]>>,
     workflow |-> <<
        [type |-> "workflow",
         base_structure |-> "Create a {workflow_type} that {action} with {requirements}",
         modifiers |-> <<
            "automated pipeline", "approval process", "data transformation",
            "notification system", "scheduled task", "event-driven workflow",
            "multi-stage process", "conditional routing", "parallel execution">>,
         constraints |-> <<
            "error handling for each step",
            "rollback mechanism on failure",
            "logging and audit trail",
            "idempotent operations",
            "timeout handling",
            "retry logic with exponential backoff",
            "state persistence",
            "concurrency control">>,
         quality_tokens |-> <<
            "production-ready", "scalable", "maintainable",
            "well-documented", "testable", "monitored", "resilient">>]>>,
     automation |-> <<
        [type |-> "automation",
         base_structure |-> "Automate {task} that {condition} and {output}",
         modifiers |-> <<
            "triggers when", "runs daily at", "monitors continuously",
            "responds to events", "processes batch", "streams data",
            "executes on schedule", "reacts to changes">>,
         constraints |-> <<
            "handle edge cases and null values",
            "validate input data",
            "graceful degradation",
            "rate limiting and throttling",
            "concurrent execution safety",
            "data consistency guarantees",
            "transaction management",
            "resource cleanup">>,
         quality_tokens |-> <<
            "reliable", "fault-tolerant", "observable",
            "recoverable", "performant", "secure">>]>>,
     code |-> <<
        [type |-> "code",
         base_structure |-> "Write {language} code that {functionality} with {requirements}",
         modifiers |-> <<
            "class implementation", "API endpoint", "data processor",
            "utility function", "CLI tool", "background service",
            "database layer", "service integration", "message handler">>,
         constraints |-> <<
            "type hints/annotations",
            "error handling with specific exceptions",
            "input validation",
            "unit tests included",
            "docstrings/comments for complex logic",
            "no hardcoded values",
            "configuration externalized",
            "logging instrumentation">>,
         quality_tokens |-> <<
            "production-grade", "efficient", "readable",
            "maintainable", "well-tested", "documented", "SOLID principles">>]>>]

\* a lookup that falls back to the code templates instead of []
TemplatesGetFallback(tpls, prompt_type) ==
    IF prompt_type \in DOMAIN tpls THEN tpls[prompt_type] ELSE tpls["code"]

\* self.templates.get(prompt_type, [])
TemplatesGet(tpls, prompt_type) ==
    IF prompt_type \in DOMAIN tpls THEN tpls[prompt_type] ELSE <<>>

(***************************************************************************)
(* The random source.  One loop iteration of generate consumes a tape of   *)
(* draws; draw number d of the tape rng = [x0, step] is the grid point     *)
(* Draw(rng, d) of 0..Grid-1, standing for the unit value Draw/Grid.       *)
(***************************************************************************)
Tapes == [x0 : 0..(Grid - 1), step : 0..(Grid - 1)]

Draw(rng, d) == (rng.x0 + d * rng.step) % Grid

\* an integer of 0..n-1
RandBelow(n, t) == (n * t) \div Grid

\* random.choice(seq)
Choice(seq, t) == seq[RandBelow(Len(seq), t) + 1]

\* random.uniform(0.3, 0.7), in hundredths; both end points can be returned
Uniform(t) == 30 + (40 * t) \div (Grid - 1)

\* the gate with the comparison turned round
QualityGateInverted(t, ratio) == t * 10 > ratio * Grid

\* random.random() < constraint_ratio
QualityGate(t, ratio) == t * 10 < ratio * Grid

\* random.sample(population, k) raises ValueError
SampleRaises(population, k) == k < 0 \/ k > Len(population)

\* k draws with replacement: the pool is never shrunk
RECURSIVE SampleWithReplacement(_, _, _, _)
SampleWithReplacement(population, k, rng, d) ==
    IF k = 0 THEN <<>>
    ELSE <<population[RandBelow(Len(population), Draw(rng, d)) + 1]>>
            \o SampleWithReplacement(population, k - 1, rng, d + 1)

\* random.sample(population, k): k draws from a shrinking pool
RECURSIVE Sample(_, _, _, _)
Sample(population, k, rng, d) ==
    IF k = 0 THEN <<>>
    ELSE LET n == Len(population)
             j == RandBelow(n, Draw(rng, d)) + 1
             pool == [i \in 1..(n - 1) |->
                         IF i = j THEN population[n] ELSE population[i]]
         IN  <<population[j]>> \o Sample(pool, k - 1, rng, d + 1)

(***************************************************************************)
(* PromptGeneratorEngine.generate: the component counts of one iteration.  *)
(* ratio is in tenths and u in hundredths, int() is the floor.             *)
(***************************************************************************)
\* max(1, int(len(template.modifiers) * constraint_ratio * random.uniform(0.3, 0.7)))
NumModifiers(n, ratio, u) == Max(1, (n * ratio * u) \div 1000)

\* the constraint count rounded up instead of down
NumConstraintsRoundedUp(n, ratio) == (n * ratio) \div 10 + 1

\* int(len(template.constraints) * constraint_ratio)
NumConstraints(n, ratio) == (n * ratio) \div 10

\* max(1, int(len(template.quality_tokens) * 0.4))
NumQuality(n) == Max(1, (n * 4) \div 10)

(***************************************************************************)
(* The three formatters.  d is the number of the first draw they consume.  *)
(***************************************************************************)
subjects == <<
    "portrait", "landscape", "product shot", "architectural detail",
    "street photography", "macro photography", "wildlife", "fashion editorial",
    "food photography", "interior design", "nature scene", "urban exploration">>

image_actions == <<
    "showcasing", "highlighting", "emphasizing", "capturing",
    "depicting", "illustrating", "featuring", "presenting">>

AssembleImagePrompt(modifiers, constraints, quality, rng, d) ==
    LET subject == Choice(subjects, Draw(rng, d))
        action == Choice(image_actions, Draw(rng, d + 1))
        style == IF Len(modifiers) >= 2 THEN Join(Take(modifiers, 2), ", ")
                 ELSE IF modifiers /= <<>> THEN modifiers[1]
                 ELSE "realistic"
        p0 == Capitalize(style) \o " " \o subject \o " " \o action
                 \o " the subject"
        p1 == IF constraints /= <<>>
              THEN p0 \o ". Must preserve: " \o Join(Take(constraints, 3), ", ")
              ELSE p0
    IN  IF quality /= <<>>
        THEN p1 \o ". Quality requirements: " \o Join(quality, ", ")
        ELSE p1

tasks == <<
    "data ingestion", "report generation", "approval routing",
    "notification dispatch", "backup process", "sync operation",
    "data validation", "record processing", "file transformation">>

AssembleWorkflowPrompt(template, modifiers, constraints, quality, rng, d) ==
    LET task == Choice(tasks, Draw(rng, d))
        condition == IF modifiers /= <<>>
                     THEN Choice(modifiers, Draw(rng, d + 1))
                     ELSE "on trigger"
        p0 == "Create " \o task \o " workflow that " \o condition
        p1 == IF constraints /= <<>>
              THEN p0 \o ". Requirements: " \o Join(Take(constraints, 4), ", ")
              ELSE p0
    IN  IF quality /= <<>>
        THEN p1 \o ". Standards: " \o Join(quality, ", ")
        ELSE p1

languages == <<"Python", "JavaScript", "TypeScript", "Go", "Rust", "Java">>

functionality == <<
    "parses CSV files", "makes HTTP requests", "processes queue messages",
    "validates user input", "generates reports", "manages database connections",
    "handles file uploads", "implements caching", "processes webhooks">>

AssembleCodePrompt(template, modifiers, constraints, quality, rng, d) ==
    LET lang == Choice(languages, Draw(rng, d))
        func == Choice(functionality, Draw(rng, d + 1))
        modifier == IF modifiers /= <<>>
                    THEN Choice(modifiers, Draw(rng, d + 2))
                    ELSE "function"
        p0 == "Write " \o lang \o " " \o modifier \o " that " \o func
        p1 == IF constraints /= <<>>
              THEN p0 \o ". Must include: " \o Join(Take(constraints, 4), ", ")
              ELSE p0
    IN  IF quality /= <<>>
        THEN p1 \o ". Quality: " \o Join(quality, ", ")
        ELSE p1

\* the dispatch on prompt_type at the end of the loop body
AssemblePrompt(prompt_type, template, modifiers, constraints, quality, rng, d) ==
    IF prompt_type = "image"
    THEN AssembleImagePrompt(modifiers, constraints, quality, rng, d)
    ELSE IF prompt_type \in {"workflow", "automation"}
    THEN AssembleWorkflowPrompt(template, modifiers, constraints, quality, rng, d)
    ELSE AssembleCodePrompt(template, modifiers, constraints, quality, rng, d)

(***************************************************************************)
(* One iteration of generate's loop body on the tape rng: either a sample  *)
(* raises ValueError, or the iteration yields its selections and a prompt. *)
(***************************************************************************)
SampleError == "Sample larger than population or is negative"

GenerateOne(tpls, prompt_type, ratio, rng) ==
    LET template == Choice(tpls, Draw(rng, 0))
        num_modifiers == NumModifiers(Len(template.modifiers), ratio,
                                      Uniform(Draw(rng, 1)))
        num_constraints == NumConstraints(Len(template.constraints), ratio)
        d_constraints == 2 + num_modifiers
        d_gate == d_constraints + num_constraints
        gate == QualityGate(Draw(rng, d_gate), ratio)
        num_quality == IF gate THEN NumQuality(Len(template.quality_tokens))
                       ELSE 0
        d_assemble == d_gate + 1 + num_quality
        selected_modifiers == Sample(template.modifiers, num_modifiers, rng, 2)
        selected_constraints ==
            IF num_constraints > 0
            THEN Sample(template.constraints, num_constraints, rng, d_constraints)
            ELSE <<>>
        selected_quality ==
            IF gate
            THEN Sample(template.quality_tokens, num_quality, rng, d_gate + 1)
            ELSE <<>>
    IN  IF \/ SampleRaises(template.modifiers, num_modifiers)
           \/ num_constraints > 0
                /\ SampleRaises(template.constraints, num_constraints)
           \/ gate /\ SampleRaises(template.quality_tokens, num_quality)
        THEN [raised |-> TRUE, detail |-> SampleError]
        ELSE [raised |-> FALSE,
              sel |-> [template |-> template,
                       num_modifiers |-> num_modifiers,
                       selected_modifiers |-> selected_modifiers,
                       num_constraints |-> num_constraints,
                       selected_constraints |-> selected_constraints,
                       gate |-> gate,
                       num_quality |-> num_quality,
                       selected_quality |-> selected_quality],
              prompt |-> AssemblePrompt(prompt_type, template,
                             selected_modifiers, selected_constraints,
                             selected_quality, rng, d_assemble)]

(***************************************************************************)
(* The /generate endpoint and the engine's generate.                       *)
(***************************************************************************)
NoRequest == [kind |-> "none"]
NoResponse == [kind |-> "none"]
NoSel == [gate |-> FALSE, num_modifiers |-> 0, num_constraints |-> 0,
          num_quality |-> 0, selected_modifiers |-> <<>>,
          selected_constraints |-> <<>>, selected_quality |-> <<>>,
          template |-> [type |-> "", base_structure |-> "",
                        modifiers |-> <<>>, constraints |-> <<>>,
                        quality_tokens |-> <<>>]]

\* the counts a request of the model carries: in range, and out of range
Counts == 0..MaxCount \cup {MaxPromptCount + 1}

\* GenerateRequest's field validation
GenerateRequestValid(prompt_type, count, specificity) ==
    /\ prompt_type \in PromptTypeEnum
    /\ specificity \in SpecificityLevel
    /\ 1 <= count /\ count <= MaxPromptCount

\* f"{prompt_type}" of a str-mixin Enum member: the value, or Class.NAME,
\* depending on the interpreter version
EnumFormat(prompt_type) == {prompt_type, "PromptTypeEnum." \o Upper(prompt_type)}

\* the loop written as range(count - 1)
LoopContinuesShort(n, count) == n + 1 < count

\* for _ in range(count)
LoopContinues(n, count) == n < count

\* prompts.append(prompt)
AppendPrompt(ps, prompt) == Append(ps, prompt)

(***************************************************************************)
(* PromptGeneratorEngine.optimize and its helpers.                         *)
(***************************************************************************)
image_keywords == <<"photo", "image", "picture", "hair", "face", "look",
                    "style", "portrait", "background">>
workflow_keywords == <<"workflow", "process", "pipeline", "approval", "automate">>
code_keywords == <<"code", "function", "script", "program", "write",
                   "implement", "algorithm">>

\* any(kw in s for kw in kws)
AnyIn(kws, s) == \E k \in 1..Len(kws) : Contains(s, kws[k])

\* the scan with the code keywords tried first
DetectPromptTypeCodeFirst(prompt) ==
    LET prompt_lower == Lower(prompt)
    IN  IF AnyIn(code_keywords, prompt_lower) THEN "code"
        ELSE IF AnyIn(image_keywords, prompt_lower) THEN "image"
        ELSE IF AnyIn(workflow_keywords, prompt_lower) THEN "workflow"
        ELSE "image"

DetectPromptType(prompt) ==
    LET prompt_lower == Lower(prompt)
    IN  IF AnyIn(image_keywords, prompt_lower) THEN "image"
        ELSE IF AnyIn(workflow_keywords, prompt_lower) THEN "workflow"
        ELSE IF AnyIn(code_keywords, prompt_lower) THEN "code"
        ELSE "image"

\* for w in words: if w in s: return w ... return default
RECURSIVE FirstIn(_, _, _)
FirstIn(words, s, default) ==
    IF words = <<>> THEN default
    ELSE IF Contains(s, Head(words)) THEN Head(words)
    ELSE FirstIn(Tail(words), s, default)

find_actions == <<"give", "make", "create", "change", "modify", "show",
                  "generate", "build">>

FindAction(prompt) == FirstIn(find_actions, Lower(prompt), "create")

\* the targets with the longer words tried before "hair"
targets_longest_first == <<"hairstyle", "haircut", "hair", "photo", "image",
                           "code", "workflow", "background">>

targets == <<"hair", "hairstyle", "haircut", "photo", "image", "code",
             "workflow", "background">>

FindTarget(prompt) == FirstIn(targets, Lower(prompt), "item")

ExtractIntent(prompt) ==
    [action |-> FindAction(prompt), target |-> FindTarget(prompt)]

style_map == <<
    [style |-> "bowl cut",
     description |-> "a classic bowl cut: straight, even fringe across the forehead, rounded silhouette around the head, clean and symmetrical"],
    [style |-> "pixie",
     description |-> "a modern pixie cut: short on sides and back, slightly longer on top, textured and layered"],
    [style |-> "bob",
     description |-> "a sleek bob: chin-length, blunt cut, straight and polished"],
    [style |-> "mullet",
     description |-> "a mullet: short in front and on top, long in the back, with clear distinction between lengths"],
    [style |-> "undercut",
     description |-> "an undercut: shaved or very short sides and back, longer hair on top with clear contrast"],
    [style |-> "fade",
     description |-> "a fade: gradual transition from short to longer hair, clean taper on sides and back"],
    [style |-> "buzz",
     description |-> "a buzz cut: uniform short length all around, clean and low-maintenance"],
    [style |-> "crew cut",
     description |-> "a crew cut: short on sides, slightly longer on top, classic military style"]>>

hair_style_fallback ==
    "the requested hairstyle with appropriate length, shape, and styling details"

\* the scan of style_map.items() from entry k on
RECURSIVE HairStyleFrom(_, _)
HairStyleFrom(k, prompt_lower) ==
    IF k > Len(style_map) THEN hair_style_fallback
    ELSE IF Contains(prompt_lower, style_map[k].style)
    THEN style_map[k].description
    ELSE HairStyleFrom(k + 1, prompt_lower)

\* the lookup on the text as typed, without lower()
ExtractHairStyleCaseSensitive(prompt) == HairStyleFrom(1, prompt)

ExtractHairStyle(prompt) == HairStyleFrom(1, Lower(prompt))

OptimizeImagePrompt(vague, intent) ==
    LET vague_lower == Lower(vague)
        photo == IF Contains(vague_lower, "photo") \/ Contains(vague_lower, "image")
                 THEN <<"Using the uploaded photo, keep the person or subject's face, identity, and proportions exactly the same">>
                 ELSE <<>>
        change == IF Contains(vague_lower, "hair") \/ Contains(vague_lower, "haircut")
                  THEN <<"Change only their hairstyle to " \o ExtractHairStyle(vague),
                         "The haircut should look realistic and naturally blended with the existing hair texture, color, lighting, and head shape">>
                  ELSE IF Contains(vague_lower, "background")
                  THEN <<"Change only the background while preserving the subject completely",
                         "Ensure seamless integration with proper lighting, shadows, and depth matching">>
                  ELSE <<"Modify the " \o intent.target \o " while preserving all other aspects">>
        base == photo \o change \o
                <<"Do not alter facial features, expression, age, or any unspecified elements">>
    IN  Join(base, ". ")

OptimizeWorkflowPrompt(vague, intent) ==
    Join(<<"Create a production-ready workflow that " \o intent.action \o "s "
               \o intent.target,
           "Include: error handling for each step, rollback mechanism on failure, logging and audit trail, retry logic with exponential backoff",
           "Ensure idempotent operations, timeout handling, monitoring hooks, and state persistence">>,
         ". ")

OptimizeCodePrompt(vague, intent) ==
    Join(<<"Write production-grade code that " \o intent.action \o "s "
               \o intent.target,
           "Must include: type hints/annotations, comprehensive error handling with specific exceptions, input validation, unit tests, docstrings for complex logic",
           "No hardcoded values, configuration externalized, efficient algorithm choices, clear variable names, logging instrumentation">>,
         ". ")

OptimizeGenericPrompt(vague, intent) ==
    "Please provide a detailed, specific implementation of: " \o vague
        \o ". Include all necessary constraints, requirements, and quality standards for production use."

\* the expansion optimize appends for the detected type
Expansion(prompt_type, vague_prompt, intent) ==
    IF prompt_type = "image" THEN OptimizeImagePrompt(vague_prompt, intent)
    ELSE IF prompt_type = "workflow" THEN OptimizeWorkflowPrompt(vague_prompt, intent)
    ELSE IF prompt_type = "code" THEN OptimizeCodePrompt(vague_prompt, intent)
    ELSE OptimizeGenericPrompt(vague_prompt, intent)

\* the prefix without its full stop
ContextPrefixNoStop(context) ==
    IF context /= <<>> /\ context[1] /= "" THEN context[1] \o " " ELSE ""

\* An Optional[str] context is <<>> for None and <<s>> for the string s.
\* `if context:` holds for a string that is not empty.
ContextPrefix(context) ==
    IF context /= <<>> /\ context[1] /= "" THEN context[1] \o ". " ELSE ""

Optimize(vague_prompt, context) ==
    LET prompt_type == DetectPromptType(vague_prompt)
        intent == ExtractIntent(vague_prompt)
        optimized == ContextPrefix(context)
                        \o Expansion(prompt_type, vague_prompt, intent)
    IN  [optimized |-> Strip(optimized), prompt_type |-> prompt_type]

\* the validation with min_length = 2
OptimizeRequestValidMin2(vague_prompt, context) ==
    /\ 2 <= Len(vague_prompt) /\ Len(vague_prompt) <= MaxTextLen
    /\ context = <<>> \/ Len(context[1]) <= MaxTextLen

\* OptimizeRequest's field validation
OptimizeRequestValid(vague_prompt, context) ==
    /\ 1 <= Len(vague_prompt) /\ Len(vague_prompt) <= MaxTextLen
    /\ context = <<>> \/ Len(context[1]) <= MaxTextLen

(***************************************************************************)
(* The requests of the model sent to /optimize.                            *)
(***************************************************************************)
Words == {"hair", "Photo", "STYLE", "background", "hairstyle", "haircut",
          "workflow", "Automate", "process", "write", "function", "Code",
          "bowl cut", "bob", "Pixie", "fade", "make", "dog"}

WordSeqs == UNION {[1..n -> Words] : n \in 1..MaxWords}

RECURSIVE Repeat(_, _)
Repeat(s, n) ==
    IF n = 0 THEN ""
    ELSE LET half == Repeat(s, n \div 2)
         IN  IF n % 2 = 0 THEN half \o half ELSE half \o half \o s

TooLong == Repeat("a", MaxTextLen + 1)

ExampleTexts == {"make my hair a bowl cut",
                 "automate the data backup process",
                 "write a function that parses JSON",
                 "Give her HAIR a bob, not a bowl cut",
                 "", " ", TooLong}

Texts == ExampleTexts \cup {Join(ws, " ") : ws \in WordSeqs}

Contexts == {<<>>, <<"">>, <<" ">>, <<"Keep it under 100 lines">>,
             <<" for a website\n">>, <<TooLong>>}

Init ==
    /\ templates = InitTemplates
    /\ pc = "idle"
    /\ request = NoRequest
    /\ iter = 0
    /\ prompts = <<>>
    /\ sel = NoSel
    /\ response = NoResponse

\* POST /generate arrives: validation, then generate up to its loop
GenerateCall ==
    /\ pc = "idle"
    /\ \E prompt_type \in PromptTypeEnum, count \in Counts,
          specificity \in SpecificityLevel :
         /\ request' = [kind |-> "generate", prompt_type |-> prompt_type,
                        count |-> count, specificity |-> specificity]
         /\ iter' = 0
         /\ prompts' = <<>>
         /\ sel' = NoSel
         /\ UNCHANGED templates
         /\ IF ~GenerateRequestValid(prompt_type, count, specificity)
            THEN /\ pc' = "responded"
                 /\ response' = [kind |-> "generate", status |-> 422]
            ELSE IF TemplatesGet(templates, prompt_type) = <<>>
            THEN /\ pc' = "responded"
                 /\ \E name \in EnumFormat(prompt_type) :
                      response' = [kind |-> "generate", status |-> 500,
                                   detail |-> "No templates for " \o name]
            ELSE /\ pc' = "generating"
                 /\ response' = NoResponse

\* a loop body that samples the modifiers by removing them from the
\* template's own list
GenerateIterationInPlace ==
    /\ pc = "generating"
    /\ LoopContinues(iter, request.count)
    /\ \E rng \in Tapes :
         LET out == GenerateOne(TemplatesGet(templates, request.prompt_type),
                                request.prompt_type,
                                specificity_levels[request.specificity], rng)
             left == SelectSeq(out.sel.template.modifiers,
                               LAMBDA m : \A k \in 1..Len(out.sel.selected_modifiers) :
                                             out.sel.selected_modifiers[k] /= m)
         IN  /\ ~out.raised
             /\ Len(left) > 0
             /\ pc' = "generating"
             /\ iter' = iter + 1
             /\ prompts' = AppendPrompt(prompts, out.prompt)
             /\ sel' = out.sel
             /\ response' = NoResponse
             /\ templates' = [templates EXCEPT
                                ![request.prompt_type][1].modifiers = left]
    /\ UNCHANGED request

\* one pass through the loop body
GenerateIteration ==
    /\ pc = "generating"
    /\ LoopContinues(iter, request.count)
    /\ \E rng \in Tapes :
         LET out == GenerateOne(TemplatesGet(templates, request.prompt_type),
                                request.prompt_type,
                                specificity_levels[request.specificity], rng)
         IN  IF out.raised
             THEN /\ pc' = "responded"
                  /\ iter' = 0
                  /\ prompts' = <<>>
                  /\ sel' = NoSel
                  /\ response' = [kind |-> "generate", status |-> 500,
                                  detail |-> out.detail]
             ELSE /\ pc' = "generating"
                  /\ iter' = iter + 1
                  /\ prompts' = AppendPrompt(prompts, out.prompt)
                  /\ sel' = out.sel
                  /\ response' = NoResponse
    /\ UNCHANGED <<templates, request>>

\* the loop is over: generate returns and the endpoint builds its response
GenerateReturn ==
    /\ pc = "generating"
    /\ ~LoopContinues(iter, request.count)
    /\ pc' = "responded"
    /\ response' = [kind |-> "generate", status |-> 200,
                    prompts |-> prompts, count |-> Len(prompts),
                    prompt_type |-> request.prompt_type,
                    specificity |-> request.specificity]
    /\ iter' = 0
    /\ prompts' = <<>>
    /\ sel' = NoSel
    /\ UNCHANGED <<templates, request>>

\* POST /optimize arrives: validation, then optimize and the response
OptimizeCall ==
    /\ pc = "idle"
    /\ \E vague_prompt \in Texts, context \in Contexts :
         /\ pc' = "responded"
         /\ request' = [kind |-> "optimize", vague_prompt |-> vague_prompt,
                        context |-> context]
         /\ response' =
              IF ~OptimizeRequestValid(vague_prompt, context)
              THEN [kind |-> "optimize", status |-> 422]
              ELSE LET out == Optimize(vague_prompt, context)
                   IN  [kind |-> "optimize", status |-> 200,
                        original |-> vague_prompt,
                        optimized |-> out.optimized,
                        detected_type |-> out.prompt_type]
         /\ UNCHANGED <<templates, iter, prompts, sel>>

\* the response has been sent; the server waits for the next request
Respond ==
    /\ pc = "responded"
    /\ pc' = "idle"
    /\ request' = NoRequest
    /\ response' = NoResponse
    /\ UNCHANGED <<templates, iter, prompts, sel>>

Next ==
    \/ GenerateCall
    \/ GenerateIteration
    \/ GenerateReturn
    \/ OptimizeCall
    \/ Respond

Spec == Init /\ [][Next]_vars

(***************************************************************************)
(* Properties.                                                             *)
(***************************************************************************)
PopulatedTypes == {"image", "workflow", "automation", "code"}

GenerateDone == pc = "responded" /\ request.kind = "generate"
OptimizeDone == pc = "responded" /\ request.kind = "optimize"

Distinct(seq) ==
    \A a, b \in 1..Len(seq) : a /= b => seq[a] /= seq[b]

\* C1: for a populated category, a count in range and any specificity,
\* whatever the draws, generate returns exactly count strings, none of them
\* empty, in the order in which the loop produced them.
GenerateReturnsCountInOrder ==
    /\ [](GenerateDone
            /\ request.prompt_type \in PopulatedTypes
            /\ 1 <= request.count /\ request.count <= MaxPromptCount
          => /\ response.status = 200
             /\ Len(response.prompts) = request.count
             /\ \A k \in 1..Len(response.prompts) :
                    Len(response.prompts[k]) > 0)
    /\ [][pc = "generating" =>
            /\ pc' = "generating" =>
                 /\ Len(prompts') = Len(prompts) + 1
                 /\ SubSeq(prompts', 1, Len(prompts)) = prompts
            /\ pc' = "responded" => response'.prompts = prompts]_vars

\* a request for the largest count has been answered with different strings
GenerateReturnedMaxCount ==
    /\ GenerateDone
    /\ response.status = 200
    /\ request.count = MaxCount
    /\ Len(response.prompts) = MaxCount
    /\ response.prompts[1] /= response.prompts[MaxCount]

\* C2: generate for the category analysis fails with "No templates for ..."
\* whatever the count and the specificity, before the loop produces any
\* prompt; /generate answers 500 with that message and no prompts.
AnalysisAlwaysFails ==
    request.kind = "generate"
      /\ request.prompt_type = "analysis"
      /\ 1 <= request.count /\ request.count <= MaxPromptCount
    => /\ pc = "responded"
       /\ iter = 0
       /\ prompts = <<>>
       /\ response.status = 500
       /\ StartsWith(response.detail, "No templates for ")
       /\ "prompts" \notin DOMAIN response

\* /generate has answered a request for analysis
AnalysisAnswered ==
    /\ GenerateDone
    /\ request.prompt_type = "analysis"
    /\ request.count = MaxCount
    /\ response.status = 500

\* C3: at specificity extreme every string generated for code contains
\* ". Quality: " and every string generated for workflow contains
\* ". Standards: ", whatever the draws.
ExtremeAlwaysHasQuality ==
    request.kind = "generate" /\ request.specificity = "extreme"
    => LET clause == IF request.prompt_type = "code" THEN ". Quality: "
                     ELSE IF request.prompt_type = "workflow" THEN ". Standards: "
                     ELSE ""
           generated == IF pc = "responded" /\ response.status = 200
                        THEN response.prompts ELSE prompts
       IN  \A k \in 1..Len(generated) : Contains(generated[k], clause)

\* code prompts have been generated at extreme
ExtremeCodeGenerated ==
    /\ GenerateDone
    /\ request.specificity = "extreme"
    /\ request.prompt_type = "code"
    /\ response.status = 200
    /\ Len(response.prompts) = MaxCount

\* C4: the modifiers selected for one generated string are pairwise
\* distinct, and so are its constraints and its quality tokens, for every
\* populated category, specificity and outcome of the draws.
SelectionsAreDistinct ==
    pc = "generating"
    => /\ Distinct(sel.selected_modifiers)
       /\ Distinct(sel.selected_constraints)
       /\ Distinct(sel.selected_quality)

\* an iteration has selected several components of each kind
SeveralSelected ==
    /\ pc = "generating"
    /\ iter > 0
    /\ Len(sel.selected_modifiers) >= 3
    /\ Len(sel.selected_constraints) >= 3
    /\ Len(sel.selected_quality) >= 3

\* C5: optimize classifies by a case-insensitive substring scan: image when
\* an image keyword occurs, else workflow when a workflow keyword occurs,
\* else code when a code keyword occurs, else image.
ClassificationPrecedence ==
    OptimizeDone /\ response.status = 200
    => LET text == Lower(response.original)
           has(kws) == \E kw \in kws : Contains(text, kw)
           image == has({"photo", "image", "picture", "hair", "face", "look",
                         "style", "portrait", "background"})
           workflow == has({"workflow", "process", "pipeline", "approval",
                            "automate"})
           code == has({"code", "function", "script", "program", "write",
                        "implement", "algorithm"})
       IN  /\ image => response.detected_type = "image"
           /\ ~image /\ workflow => response.detected_type = "workflow"
           /\ ~image /\ ~workflow /\ code => response.detected_type = "code"
           /\ ~image /\ ~workflow /\ ~code => response.detected_type = "image"
           /\ response.original = "automate the data backup process"
                => response.detected_type = "workflow"
           /\ response.original = "write a function that parses JSON"
                => response.detected_type = "code"

\* a text with an image keyword in capitals and a code keyword is image
ImageBeatsCode ==
    /\ OptimizeDone
    /\ response.status = 200
    /\ response.original = "STYLE Code"
    /\ response.detected_type = "image"

\* the category expansion of an answered optimize request
ResponseExpansion ==
    Expansion(response.detected_type, response.original,
              ExtractIntent(response.original))

\* C6 as stated: for every provided context string the optimized text is
\* (context + ". " + expansion) trimmed, and the trimmed expansion alone
\* when no context is provided.
ContextAlwaysPrefixed ==
    OptimizeDone /\ response.status = 200
    => response.optimized =
         IF request.context /= <<>>
         THEN Strip(request.context[1] \o ". " \o ResponseExpansion)
         ELSE Strip(ResponseExpansion)

\* C6: for every text and every context that is not the empty string the
\* optimized text is (context + ". " + expansion) trimmed; without a
\* context, or with the empty string as context, it is the trimmed
\* expansion alone; with context "Keep it under 100 lines" the optimized
\* text begins with "Keep it under 100 lines. ".
NonEmptyContextPrefixed ==
    OptimizeDone /\ response.status = 200
    => /\ response.optimized =
            IF request.context /= <<>> /\ request.context[1] /= ""
            THEN Strip(request.context[1] \o ". " \o ResponseExpansion)
            ELSE Strip(ResponseExpansion)
       /\ request.context = <<"Keep it under 100 lines">>
            => StartsWith(response.optimized, "Keep it under 100 lines. ")

\* a request with the context of the example has been answered
ContextExampleAnswered ==
    /\ OptimizeDone
    /\ response.status = 200
    /\ request.context = <<"Keep it under 100 lines">>
    /\ response.detected_type = "code"

\* C7: a text that mentions "hair" is image, and its hairstyle clause
\* describes the first cut of (bowl cut, pixie, bob, mullet, undercut, fade,
\* buzz, crew cut) that occurs in the text in any case, or the generic
\* description when none occurs.
HairStyleFirstMatch ==
    OptimizeDone /\ response.status = 200
      /\ Contains(Lower(response.original), "hair")
    => LET text == Lower(response.original)
           cuts == <<"bowl cut", "pixie", "bob", "mullet", "undercut",
                     "fade", "buzz", "crew cut">>
           hits == {k \in 1..Len(cuts) : Contains(text, cuts[k])}
           first == CHOOSE k \in hits : \A h \in hits : k <= h
           entry == CHOOSE e \in {style_map[k] : k \in 1..Len(style_map)} :
                        e.style = cuts[first]
           description == IF hits = {} THEN hair_style_fallback
                          ELSE entry.description
       IN  /\ response.detected_type = "image"
           /\ Contains(response.optimized,
                       "Change only their hairstyle to " \o description \o ". ")
           /\ response.original = "make my hair a bowl cut"
                => Contains(response.optimized,
                            "straight, even fringe across the forehead")

\* a text naming two cuts, in capitals and out of table order, got the
\* description of the cut that comes first in the table
BowlCutBeatsBob ==
    /\ OptimizeDone
    /\ response.status = 200
    /\ response.original = "Give her HAIR a bob, not a bowl cut"
    /\ Contains(response.optimized, "hairstyle to a classic bowl cut")

\* C8: for a text of 1 to 500 characters and a context, if any, of at most
\* 500 characters, optimize does not fail and returns a category and an
\* optimized string that is not empty.
OptimizeNeverFails ==
    (/\ OptimizeDone
     /\ 1 <= Len(request.vague_prompt) /\ Len(request.vague_prompt) <= 500
     /\ request.context /= <<>> => Len(request.context[1]) <= 500)
    => /\ response.status = 200
       /\ response.detected_type \in PromptTypeEnum
       /\ Len(response.optimized) > 0

\* a text of one blank with a blank context has been optimized
BlankTextOptimized ==
    /\ OptimizeDone
    /\ request.vague_prompt = " "
    /\ request.context = <<" ">>
    /\ response.status = 200

\* C9: whatever calls have been made, the catalog is the one built at
\* initialization, and a new call starts from the state the first call
\* started from.
CatalogNeverChanges ==
    /\ templates = InitTemplates
    /\ pc = "idle" => /\ request = NoRequest
                      /\ response = NoResponse
                      /\ iter = 0
                      /\ prompts = <<>>
                      /\ sel = NoSel

\* a generate call has run its loop to the end
GenerateCompleted ==
    /\ GenerateDone
    /\ response.status = 200
    /\ request.count = MaxCount
    /\ templates = InitTemplates

\* C10: for every populated category, every specificity ratio and every u
\* of [0.3, 0.7], the sample sizes generate asks for never exceed the length
\* of the list sampled, so that no sampling step raises.
SampleSizesFit ==
    /\ pc = "generating" =>
         /\ sel.num_modifiers <= Len(sel.template.modifiers)
         /\ sel.num_constraints <= Len(sel.template.constraints)
         /\ sel.num_quality <= Len(sel.template.quality_tokens)
         /\ Len(sel.selected_modifiers) = sel.num_modifiers
         /\ Len(sel.selected_constraints) = sel.num_constraints
         /\ Len(sel.selected_quality) = sel.num_quality
    /\ pc = "generating" =>
         \A k \in 1..Len(templates[request.prompt_type]), u \in 30..70 :
            LET template == templates[request.prompt_type][k]
                ratio == specificity_levels[request.specificity]
            IN  /\ NumModifiers(Len(template.modifiers), ratio, u)
                      <= Len(template.modifiers)
                /\ NumConstraints(Len(template.constraints), ratio)
                      <= Len(template.constraints)
                /\ NumQuality(Len(template.quality_tokens))
                      <= Len(template.quality_tokens)
    /\ GenerateDone /\ response.status = 500
         => response.detail /= SampleError

\* at extreme an iteration has asked for every constraint of the list and
\* for the largest share of the modifiers
WholeListSampled ==
    /\ pc = "generating"
    /\ iter > 0
    /\ request.specificity = "extreme"
    /\ sel.num_constraints = Len(sel.template.constraints)
    /\ sel.num_modifiers = (Len(sel.template.modifiers) * 7) \div 10
    /\ sel.gate

\* C11: "hair" comes before "hairstyle" and "haircut" in the list of
\* targets and is a substring of both, so the target extracted from a text
\* is never "hairstyle" and never "haircut": it is one of hair, photo,
\* image, code, workflow, background, item, and it is "hair" for every text
\* that mentions a hairstyle or a haircut.
TargetNeverHairstyle ==
    OptimizeDone /\ response.status = 200
    => LET target == ExtractIntent(response.original).target
           text == Lower(response.original)
       IN  /\ target \notin {"hairstyle", "haircut"}
           /\ target \in {"hair", "photo", "image", "code", "workflow",
                          "background", "item"}
           /\ Contains(text, "hairstyle") \/ Contains(text, "haircut")
                => target = "hair"

\* a text naming a hairstyle and a haircut, and not the word hair alone,
\* has been optimized with the target hair
HairstyleTextOptimized ==
    /\ OptimizeDone
    /\ response.status = 200
    /\ response.original = "hairstyle haircut"
    /\ ExtractIntent(response.original).target = "hair"

====
